---- MODULE Spec2Model ----
(***************************************************************************)
(* Model of scripts/train-rl-model.py: the indicator pipeline              *)
(* (calculate_technical_indicators), the state builder (create_rl_state),  *)
(* the episode simulator (simulate_episode) and the episode aggregator     *)
(* (train_rl_model).                                                       *)
(*                                                                         *)
(* Floating point values are modelled as exact fractions <<n, d>> with     *)
(* d > 0, extended the IEEE way by <<1, 0>> (+inf), <<-1, 0>> (-inf) and   *)
(* <<0, 0>> (NaN).  Rounding is not modelled.                              *)
(***************************************************************************)
EXTENDS Integers, Sequences, FiniteSets, TLC

VARIABLES
    entry,                  \* which function the caller invoked
    df,                     \* the indicator series handed to simulate_episode
    episodes,               \* train_rl_model's episodes argument
    pc,                     \* the program point
    episode,                \* train_rl_model's loop variable
    results,                \* train_rl_model: results
    best_return,            \* train_rl_model: best_return
    best_episode,           \* train_rl_model: best_episode
    i,                      \* simulate_episode: loop index
    portfolio_value,        \* simulate_episode: portfolio_value
    position,               \* simulate_episode: position
    position_entry_price,   \* simulate_episode: position_entry_price
    trades,                 \* simulate_episode: trades
    state,                  \* simulate_episode: the DecisionState of bar i
    result,                 \* simulate_episode's return value
    training_data,          \* train_rl_model: training_data
    returned,               \* train_rl_model's return value
    err,                    \* the exception that ended the call, if any
    closes,                 \* calculate_technical_indicators: df['Close'] on entry
    out                     \* calculate_technical_indicators' return value

vars == <<entry, df, episodes, pc, episode, results, best_return, best_episode,
          i, portfolio_value, position, position_entry_price, trades, state,
          result, training_data, returned, err, closes, out>>

simVars == <<i, portfolio_value, position, position_entry_price, trades, state>>
trainVars == <<episode, results, best_return, best_episode>>
indVars == <<closes, out>>

-----------------------------------------------------------------------------
(* Bounds and input sets *)

\* longest indicator series handed to the simulator
MaxLen == 4
\* longest raw close series handed to the indicator pipeline
MaxBars == 51

\* values train_rl_model's episodes argument is drawn from
EpisodeCounts == {1, 2}
\* closes of the indicator rows
Closes == {0, 1, 2}
\* (RSI, MACD) of a row: a buy signal, a sell signal by RSI, neither, and the
\* sell signal by MACD of a bar that lost its whole price
Signals == {<<20, 1>>, <<80, 1>>, <<50, 0>>, <<20, -1>>}
\* values np.random.uniform(-0.5, 0.5) is drawn from, in tenths
NoiseValues == {-5, 5}

None == "None"

-----------------------------------------------------------------------------
(* Float arithmetic on fractions *)

Abs(x) == IF x < 0 THEN -x ELSE x
Sign(x) == IF x < 0 THEN -1 ELSE IF x > 0 THEN 1 ELSE 0

RECURSIVE GCD(_, _)
GCD(a, b) == IF b = 0 THEN a ELSE GCD(b, a % b)

Num(n, d) ==
    IF d = 0 THEN <<Sign(n), 0>>
    ELSE LET g == GCD(Abs(n), Abs(d))
             s == IF d < 0 THEN -1 ELSE 1
         IN  <<s * (n \div g), s * (d \div g)>>

F(x) == <<x, 1>>
NaN == <<0, 0>>
PosInf == <<1, 0>>
NegInf == <<-1, 0>>
IsNaN(a) == a = NaN
IsFinite(a) == a[2] # 0

Add(a, b) ==
    IF IsFinite(a) /\ IsFinite(b) THEN Num(a[1] * b[2] + b[1] * a[2], a[2] * b[2])
    ELSE IF IsNaN(a) \/ IsNaN(b) THEN NaN
    ELSE IF ~IsFinite(a) /\ ~IsFinite(b) THEN (IF a = b THEN a ELSE NaN)
    ELSE IF IsFinite(a) THEN b ELSE a
Neg(a) == <<-a[1], a[2]>>
Sub(a, b) == Add(a, Neg(b))
Mul(a, b) == Num(a[1] * b[1], a[2] * b[2])
Div(a, b) ==
    LET s == IF b[1] < 0 THEN -1 ELSE 1
    IN  Num(s * a[1] * b[2], s * a[2] * b[1])
Gt(a, b) == ~IsNaN(a) /\ ~IsNaN(b) /\ a[1] * b[2] > b[1] * a[2]
Lt(a, b) == Gt(b, a)
Le(a, b) == ~IsNaN(a) /\ ~IsNaN(b) /\ a[1] * b[2] <= b[1] * a[2]

RECURSIVE SumNum(_)
SumNum(s) == IF s = <<>> THEN F(0) ELSE Add(s[1], SumNum(Tail(s)))
\* np.mean of a non-empty list
Mean(s) == Div(SumNum(s), F(Len(s)))

-----------------------------------------------------------------------------
(* The indicator series *)

\* a zero close is a degenerate bar: a bar that closes at 0 has lost its whole
\* price, so its RSI is low and its MACD negative, and no position is opened at
\* it (the position size 0.95 * portfolio_value / close stays a number)
Rows ==
    {r \in [Close : Closes, RSI : {s[1] : s \in Signals}, MACD : {s[2] : s \in Signals}] :
        /\ <<r.RSI, r.MACD>> \in Signals
        /\ (r.Close = 0 <=> r.MACD < 0)}

Series == UNION {[1..n -> Rows] : n \in 0..MaxLen}

\* df.iloc[k] for a 0-based k >= 0, df.iloc[-1] for k = -1
Iloc(k) == IF k < 0 THEN df[Len(df) + 1 + k] ELSE df[k + 1]

-----------------------------------------------------------------------------
(* create_rl_state *)

\* The rows of the series come out of dropna(), so Volatility, RSI and MACD are
\* numbers and the NaN substitutes of lines 51, 54 and 55 are not taken.  The
\* pass-through fields volume, volatility, sma20 and sma50 are left out.
create_rl_state(row, prev_close, news, market) ==
    [price           |-> F(row.Close),
     priceChange     |-> IF prev_close > 0
                         THEN Mul(Div(Sub(F(row.Close), F(prev_close)), F(prev_close)), F(100))
                         ELSE F(0),
     rsi             |-> row.RSI,
     macd            |-> row.MACD,
     newsSentiment   |-> Num(news, 10),
     marketSentiment |-> Num(market, 10),
     portfolioValue  |-> F(10000),
     positionSize    |-> F(0),
     unrealizedPnL   |-> F(0)]

-----------------------------------------------------------------------------
(* simulate_episode *)

\* faulty variant: the loop also decides at the final bar
LoopBoundAll(n) == n
\* for i in range(len(df) - 1)
LoopBound(n) == n - 1

\* faulty variant: the buy rule also reads the random news sentiment
DecideActionNoise(st) ==
    IF st.rsi < 30 /\ st.macd > 0 /\ Gt(st.newsSentiment, F(0)) THEN "buy"
    ELSE IF st.rsi > 70 \/ st.macd < 0 THEN "sell"
    ELSE "hold"
\* faulty variant: the buy rule joins its two conditions with or
DecideActionOr(st) ==
    IF st.rsi < 30 \/ st.macd > 0 THEN "buy"
    ELSE IF st.rsi > 70 \/ st.macd < 0 THEN "sell"
    ELSE "hold"
\* the momentum + RSI strategy
DecideAction(st) ==
    IF st.rsi < 30 /\ st.macd > 0 THEN "buy"
    ELSE IF st.rsi > 70 \/ st.macd < 0 THEN "sell"
    ELSE "hold"

\* faulty variant: a buy does not test for an open position
CanBuyAny(action, pos) == action = "buy"
CanBuy(action, pos) == action = "buy" /\ pos = F(0)
CanSell(action, pos) == action = "sell" /\ Gt(pos, F(0))

\* 95% of portfolio
BuySize(pv, close) == Div(Mul(pv, Num(95, 100)), F(close))
Pnl(exit_price, entry_price, pos) == Mul(F(exit_price - entry_price), pos)

BuyTrade(row, date) == [type |-> "buy", price |-> F(row.Close), date |-> date]
SellTrade(row, pnl, date) ==
    [type |-> "sell", price |-> F(row.Close), pnl |-> pnl, date |-> date]

\* 'pnl' in t
HasPnl(t) == "pnl" \in DOMAIN t
\* t.get('pnl', 0) > 0
IsWin(t) == IF HasPnl(t) THEN Gt(t.pnl, F(0)) ELSE FALSE
SellTrades(ts) == SelectSeq(ts, HasPnl)
WinTrades(ts) == SelectSeq(ts, IsWin)

TotalReturn(pv) == Mul(Div(Sub(pv, F(10000)), F(10000)), F(100))
\* the division of line 115 raises ZeroDivisionError on an empty list of sells
WinRateRaises(ts) == ts # <<>> /\ Len(SellTrades(ts)) = 0
WinRate(ts) ==
    IF ts # <<>>
    THEN Mul(Div(F(Len(WinTrades(ts))), F(Len(SellTrades(ts)))), F(100))
    ELSE F(0)

\* lines 63-68
SimulateEntry ==
    /\ pc = "call"
    /\ i' = 0
    /\ portfolio_value' = F(10000)
    /\ position' = F(0)
    /\ position_entry_price' = 0
    /\ trades' = <<>>
    /\ state' = None
    /\ pc' = "bar"
    /\ UNCHANGED <<entry, df, episodes, trainVars, result, training_data, returned, err, indVars>>

\* lines 70-75
BuildState ==
    /\ pc = "bar"
    /\ i < LoopBound(Len(df))
    /\ \E news \in NoiseValues, market \in NoiseValues :
         LET row == Iloc(i)
             prev_close == IF i > 0 THEN Iloc(i - 1).Close ELSE row.Close
         IN  state' = create_rl_state(row, prev_close, news, market)
    /\ pc' = "exec"
    /\ UNCHANGED <<entry, df, episodes, trainVars, i, portfolio_value, position,
                   position_entry_price, trades, result, training_data, returned,
                   err, indVars>>

\* lines 77-104; the DecisionState is dead once the bar is done
Execute ==
    /\ pc = "exec"
    /\ LET row == Iloc(i)
           action == DecideAction(state)
       IN  IF CanBuy(action, position)
           THEN /\ position' = BuySize(portfolio_value, row.Close)
                /\ position_entry_price' = row.Close
                /\ trades' = Append(trades, BuyTrade(row, i))
                /\ UNCHANGED portfolio_value
           ELSE IF CanSell(action, position)
           THEN LET pnl == Pnl(row.Close, position_entry_price, position)
                IN  /\ portfolio_value' = Add(portfolio_value, pnl)
                    /\ trades' = Append(trades, SellTrade(row, pnl, i))
                    /\ position' = F(0)
                    /\ position_entry_price' = 0
           ELSE UNCHANGED <<portfolio_value, position, position_entry_price, trades>>
    /\ i' = i + 1
    /\ state' = None
    /\ pc' = "bar"
    /\ UNCHANGED <<entry, df, episodes, trainVars, result, training_data, returned,
                   err, indVars>>

\* faulty variant: the open position is dropped without being closed
ForcedCloseSkipped(pv, pos, entry_price, exit_price) == pv
\* close any open position: the portfolio value after lines 106-110
ForcedClose(pv, pos, entry_price, exit_price) ==
    IF Gt(pos, F(0)) THEN Add(pv, Pnl(exit_price, entry_price, pos)) ELSE pv

\* lines 106-110; df.iloc[-1] is read only when a position is open
CloseOpen ==
    /\ pc = "bar"
    /\ ~(i < LoopBound(Len(df)))
    /\ portfolio_value' =
         IF Gt(position, F(0))
         THEN ForcedClose(portfolio_value, position, position_entry_price, Iloc(-1).Close)
         ELSE portfolio_value
    /\ pc' = "metrics"
    /\ UNCHANGED <<entry, df, episodes, trainVars, i, position, position_entry_price,
                   trades, state, result, training_data, returned, err, indVars>>

\* lines 112-124
Metrics ==
    /\ pc = "metrics"
    /\ IF WinRateRaises(trades)
       THEN /\ pc' = "raised"
            /\ err' = "ZeroDivisionError"
            /\ UNCHANGED result
       ELSE /\ result' = [episode        |-> episode,
                          totalTrades    |-> Len(trades),
                          portfolioValue |-> portfolio_value,
                          totalReturn    |-> TotalReturn(portfolio_value),
                          winRate        |-> WinRate(trades),
                          trades         |-> trades]
            /\ pc' = "ret"
            /\ UNCHANGED err
    /\ UNCHANGED <<entry, df, episodes, trainVars, simVars, training_data, returned, indVars>>

-----------------------------------------------------------------------------
(* train_rl_model *)

\* lines 136-145; df.index[0] of an empty frame raises IndexError
Load ==
    /\ pc = "load"
    /\ IF Len(df) = 0
       THEN /\ pc' = "raised"
            /\ err' = "IndexError"
       ELSE /\ pc' = "for"
            /\ UNCHANGED err
    /\ results' = <<>>
    /\ best_return' = NegInf
    /\ best_episode' = None
    /\ episode' = 1
    /\ UNCHANGED <<entry, df, episodes, simVars, result, training_data, returned, indVars>>

\* lines 147-148: the next episode calls simulate_episode(df, episode)
ForEpisode ==
    /\ pc = "for"
    /\ episode <= episodes
    /\ pc' = "call"
    /\ UNCHANGED <<entry, df, episodes, trainVars, simVars, result, training_data,
                   returned, err, indVars>>

IsBetter(total_return, best) == Gt(total_return, best)

\* lines 148-153: simulate_episode has returned into the loop
Collect ==
    /\ pc = "ret"
    /\ entry = "train_rl_model"
    /\ results' = Append(results, result)
    /\ IF IsBetter(result.totalReturn, best_return)
       THEN /\ best_return' = result.totalReturn
            /\ best_episode' = result
       ELSE UNCHANGED <<best_return, best_episode>>
    /\ episode' = episode + 1
    /\ pc' = "for"
    /\ UNCHANGED <<entry, df, episodes, simVars, result, training_data, returned, err, indVars>>

\* [r[field] for r in results]
TotalReturns(rs) == [k \in 1..Len(rs) |-> rs[k].totalReturn]
WinRates(rs) == [k \in 1..Len(rs) |-> rs[k].winRate]
TotalTrades(rs) == [k \in 1..Len(rs) |-> F(rs[k].totalTrades)]

\* lines 163-191; symbol and trainingDate are left out
Finish ==
    /\ pc = "for"
    /\ ~(episode <= episodes)
    /\ training_data' =
         [episodes    |-> episodes,
          metrics     |-> [averageReturn  |-> Mean(TotalReturns(results)),
                           averageWinRate |-> Mean(WinRates(results)),
                           averageTrades  |-> Mean(TotalTrades(results)),
                           bestReturn     |-> best_return],
          bestEpisode |-> best_episode,
          allResults  |-> results]
    /\ pc' = "save"
    /\ UNCHANGED <<entry, df, episodes, trainVars, simVars, result, returned, err, indVars>>

\* lines 193-199: open() or json.dump() of the fixed output path either succeeds
\* or raises; nothing catches it
Save ==
    /\ pc = "save"
    /\ \E ok \in BOOLEAN :
         IF ok
         THEN /\ returned' = training_data
              /\ pc' = "returned"
              /\ UNCHANGED err
         ELSE /\ pc' = "raised"
              /\ err' = "OSError"
              /\ UNCHANGED returned
    /\ UNCHANGED <<entry, df, episodes, trainVars, simVars, result, training_data, indVars>>

-----------------------------------------------------------------------------
(* Specification of the simulator and the aggregator *)

Init ==
    /\ entry \in {"train_rl_model", "simulate_episode"}
    /\ df \in Series
    /\ episodes \in (IF entry = "train_rl_model" THEN EpisodeCounts ELSE {1})
    /\ pc = IF entry = "train_rl_model" THEN "load" ELSE "call"
    /\ episode = 1
    /\ results = <<>>
    /\ best_return = NegInf
    /\ best_episode = None
    /\ i = 0
    /\ portfolio_value = F(10000)
    /\ position = F(0)
    /\ position_entry_price = 0
    /\ trades = <<>>
    /\ state = None
    /\ result = None
    /\ training_data = None
    /\ returned = None
    /\ err = None
    /\ closes = <<>>
    /\ out = <<>>

Next ==
    \/ SimulateEntry
    \/ BuildState
    \/ Execute
    \/ CloseOpen
    \/ Metrics
    \/ Load
    \/ ForEpisode
    \/ Collect
    \/ Finish
    \/ Save

Spec == Init /\ [][Next]_vars

-----------------------------------------------------------------------------
(* calculate_technical_indicators *)

\* the raw closes: a first close of base, then a step of s1 per bar up to
\* bar p and a step of s2 per bar after it
Steps == {-1, 0, 1}
Walk(n, base, p, s1, s2) ==
    [k \in 1..n |-> base + s1 * (IF k - 1 < p THEN k - 1 ELSE p)
                              + s2 * (IF k - 1 < p THEN 0 ELSE k - 1 - p)]
RawSeries ==
    {Walk(n, 100, p, s1, s2) :
        n \in 0..MaxBars, p \in {0, 10, 20, 30, 40}, s1 \in Steps, s2 \in Steps}

\* cs[k + 1] is the close of bar k (0-based, as the frame's rows)
RECURSIVE SumInt(_, _, _)
SumInt(xs, lo, hi) == IF lo > hi THEN 0 ELSE xs[hi] + SumInt(xs, lo, hi - 1)

\* xs.rolling(window=w).mean() at bar k, for a series xs of numbers (no NaN in
\* it): NaN until the window holds w of them
RollingMean(xs, w, k) ==
    IF k + 1 < w THEN NaN ELSE Num(SumInt(xs, k - w + 2, k + 1), w)

SMA(cs, w, k) == RollingMean(cs, w, k)

\* df['Close'].diff()
Delta(cs, k) == IF k = 0 THEN NaN ELSE F(cs[k + 1] - cs[k])
\* delta.where(delta > 0, 0): the NaN of bar 0 compares False and becomes 0
Gains(cs) ==
    [j \in 1..Len(cs) |-> IF Gt(Delta(cs, j - 1), F(0)) THEN Delta(cs, j - 1)[1] ELSE 0]
\* -delta.where(delta < 0, 0)
Losses(cs) ==
    [j \in 1..Len(cs) |-> -(IF Lt(Delta(cs, j - 1), F(0)) THEN Delta(cs, j - 1)[1] ELSE 0)]

RSI(cs, k) ==
    LET gain == RollingMean(Gains(cs), 14, k)
        loss == RollingMean(Losses(cs), 14, k)
        rs == Div(gain, loss)
    IN  Sub(F(100), Div(F(100), Add(F(1), rs)))

\* ewm(span, adjust=False).mean() has a value at every bar whose close is a
\* number: only whether MACD is NaN is modelled, not the value of the two EMAs
MACDIsNaN(cs, k) == FALSE

\* df['Close'].pct_change()
PctChange(cs, k) == IF k = 0 THEN NaN ELSE Div(F(cs[k + 1] - cs[k]), F(cs[k]))
\* pct_change().rolling(window=20).std() is NaN unless the window holds 20
\* finite numbers: only whether it is NaN is modelled, not the deviation
VolatilityIsNaN(cs, k) ==
    LET lo == IF k - 19 < 0 THEN 0 ELSE k - 19
    IN  Cardinality({j \in lo..k : IsFinite(PctChange(cs, j))}) < 20

IndicatorRow(cs, k) ==
    [bar             |-> k,
     Close           |-> F(cs[k + 1]),
     SMA20           |-> SMA(cs, 20, k),
     SMA50           |-> SMA(cs, 50, k),
     RSI             |-> RSI(cs, k),
     MACDIsNaN       |-> MACDIsNaN(cs, k),
     VolatilityIsNaN |-> VolatilityIsNaN(cs, k)]

HasNaN(r) ==
    \/ IsNaN(r.SMA20)
    \/ IsNaN(r.SMA50)
    \/ IsNaN(r.RSI)
    \/ r.MACDIsNaN
    \/ r.VolatilityIsNaN

\* df.dropna()
DropNa(rows) == LET Keep(r) == ~HasNaN(r) IN SelectSeq(rows, Keep)

calculate_technical_indicators(cs) ==
    DropNa([k \in 1..Len(cs) |-> IndicatorRow(cs, k - 1)])

Calculate ==
    /\ pc = "calc"
    /\ out' = calculate_technical_indicators(closes)
    /\ pc' = "calc_done"
    /\ UNCHANGED <<entry, df, episodes, trainVars, simVars, result, training_data,
                   returned, err, closes>>

InitInd ==
    /\ entry = "calculate_technical_indicators"
    /\ closes \in RawSeries
    /\ out = <<>>
    /\ pc = "calc"
    /\ df = <<>>
    /\ episodes = 1
    /\ episode = 1
    /\ results = <<>>
    /\ best_return = NegInf
    /\ best_episode = None
    /\ i = 0
    /\ portfolio_value = F(10000)
    /\ position = F(0)
    /\ position_entry_price = 0
    /\ trades = <<>>
    /\ state = None
    /\ result = None
    /\ training_data = None
    /\ returned = None
    /\ err = None

NextInd == Calculate

SpecInd == InitInd /\ [][NextInd]_vars

-----------------------------------------------------------------------------
(* Properties *)

Buys(ts) == LET IsBuy(t) == t.type = "buy" IN SelectSeq(ts, IsBuy)
Sells(ts) == LET IsSell(t) == t.type = "sell" IN SelectSeq(ts, IsSell)
Wins(ts) == LET Won(t) == t.type = "sell" /\ Gt(t.pnl, F(0)) IN SelectSeq(ts, Won)
RECURSIVE SumPnl(_)
SumPnl(ts) ==
    IF ts = <<>> THEN F(0)
    ELSE Add(IF ts[1].type = "sell" THEN ts[1].pnl ELSE F(0), SumPnl(Tail(ts)))
Flat == position = F(0)
Long == Gt(position, F(0))
\* simulate_episode has left its decision loop
LoopDone == pc \in {"metrics", "ret"} \/ (pc = "raised" /\ err = "ZeroDivisionError")

\* C1: every run of simulate_episode returns a result (no division by zero),
\* and its winRate is 100 * winning sells / sells when a sell was recorded and 0
\* when none was, which lies in [0, 100].
C1_WinRateDefined ==
    /\ err # "ZeroDivisionError"
    /\ pc = "ret" =>
         /\ result.winRate =
              IF Len(Sells(result.trades)) > 0
              THEN Num(100 * Len(Wins(result.trades)), Len(Sells(result.trades)))
              ELSE F(0)
         /\ Le(F(0), result.winRate)
         /\ Le(result.winRate, F(100))

\* C2: when the decision loop ends Long, the portfolio value after the loop is
\* the value before the close (10000 plus the recorded sells' pnl) plus
\* (finalClose - entryPrice) * positionSize; the close appends no Trade, so the
\* log still ends with the open buy and holds only trades of decision bars; the
\* returned record carries that value and that log.
C2_ForcedClose ==
    (pc \in {"metrics", "ret"} /\ Long) =>
        /\ portfolio_value =
             Add(Add(F(10000), SumPnl(trades)),
                 Mul(F(df[Len(df)].Close - position_entry_price), position))
        /\ trades # <<>>
        /\ trades[Len(trades)].type = "buy"
        /\ Len(Buys(trades)) = Len(Sells(trades)) + 1
        /\ \A k \in 1..Len(trades) : trades[k].date < Len(df) - 1
        /\ pc = "ret" =>
             /\ result.portfolioValue = portfolio_value
             /\ result.trades = trades
             /\ result.totalTrades = Len(trades)

\* an episode ended Long after a recorded sell, and returned its result
C2_Witness ==
    /\ pc = "ret"
    /\ Long
    /\ Len(Sells(trades)) >= 1
    /\ df[Len(df)].Close # position_entry_price

\* C3: any two episodes over the same series, each with its own random
\* sentiment draws, return the same totalTrades, the same trades in the same
\* order, the same portfolioValue and the same totalReturn.
C3_NoiseIndependence ==
    \A a \in 1..Len(results), b \in 1..Len(results) :
        /\ results[a].totalTrades = results[b].totalTrades
        /\ results[a].trades = results[b].trades
        /\ results[a].portfolioValue = results[b].portfolioValue
        /\ results[a].totalReturn = results[b].totalReturn

\* two episodes that traded have returned
C3_Witness ==
    /\ Len(results) = 2
    /\ results[1].totalTrades >= 2
    /\ results[2].totalTrades >= 2

\* C4: once train_rl_model has ended on a non-empty series, the simulator has
\* run exactly N times, allResults holds episodes 1..N in order, and the best
\* episode is the earliest one with the maximum totalReturn.
C4_Aggregation ==
    (entry = "train_rl_model" /\ pc \in {"returned", "raised"} /\ Len(df) > 0) =>
        /\ Len(results) = episodes
        /\ \A k \in 1..Len(results) : results[k].episode = k
        /\ \A k \in 1..Len(results) :
             /\ Le(results[k].totalReturn, best_episode.totalReturn)
             /\ results[k].totalReturn = best_episode.totalReturn
                  => best_episode.episode <= k

C6_Snapshot ==
    pc = "exec" =>
        /\ state.portfolioValue = portfolio_value
        /\ state.positionSize = position
        /\ state.unrealizedPnL =
             Mul(F(Iloc(i).Close - position_entry_price), position)

\* C7: the indicator pipeline returns no row with an undefined SMA20, SMA50,
\* RSI, MACD or Volatility, and as many rows as the input has beyond the first
\* 49 (none when the input has fewer than 50), also when a 14-bar window has no
\* up-move and no down-move.
C7_IndicatorLength ==
    pc = "calc_done" =>
        /\ \A k \in 1..Len(out) : ~HasNaN(out[k])
        /\ Len(out) = IF Len(closes) < 50 THEN 0 ELSE Len(closes) - 49

\* C8: once every episode is simulated and the summary is built, train_rl_model
\* returns that summary, also when writing it to the result file fails.
C8_SummaryReturned ==
    (entry = "train_rl_model" /\ (pc = "returned" \/ (pc = "raised" /\ err = "OSError"))) =>
        /\ pc = "returned"
        /\ returned = training_data

\* C9: at decision bar i a buy is executed iff the simulator is Flat and
\* rsi < 30 and macd > 0; a sell iff it is Long, the buy rule is false and
\* rsi > 70 or macd < 0; each with the stated updates; otherwise portfolio
\* value, position, entry price and trades are unchanged.
C9_Transition ==
    [][pc = "exec" =>
        /\ i \in 0..(Len(df) - 2)
        /\ i' = i + 1
        /\ LET row == Iloc(i)
               buyRule == row.RSI < 30 /\ row.MACD > 0
               sellRule == ~buyRule /\ (row.RSI > 70 \/ row.MACD < 0)
           IN  IF Flat /\ buyRule
               THEN /\ position' = Div(Mul(Num(95, 100), portfolio_value), F(row.Close))
                    /\ position_entry_price' = row.Close
                    /\ trades' = Append(trades, [type |-> "buy", price |-> F(row.Close),
                                                 date |-> i])
                    /\ portfolio_value' = portfolio_value
               ELSE IF Long /\ sellRule
               THEN /\ portfolio_value' =
                         Add(portfolio_value,
                             Mul(F(row.Close - position_entry_price), position))
                    /\ position' = F(0)
                    /\ position_entry_price' = 0
                    /\ trades' = Append(trades,
                           [type |-> "sell", price |-> F(row.Close), date |-> i,
                            pnl |-> Mul(F(row.Close - position_entry_price), position)])
               ELSE UNCHANGED <<portfolio_value, position, position_entry_price, trades>>
    ]_vars

\* a buy, a sell and a bar that changed nothing have been executed
C9_Witness ==
    /\ pc = "bar"
    /\ Len(trades) = 2
    /\ i = 3

====
